---- MODULE Spec2Model ----
(***************************************************************************)
(* Model of the type-inference engine of typing/src/infer.rs: the          *)
(* substitution table, fresh(), occurs(), unify(), solve(), substitute(),  *)
(* substitute_texp(), infer() and the driver infer_exprs().                *)
(*                                                                         *)
(* A Type is a tagged tuple: <<"Unit">>, <<"Bool">>, <<"Num">>, <<"Str">>,   *)
(* <<"Var", i>>, <<"Func", args, ret>>, <<"Tuple", tys>>, <<"Array", ty>>.  *)
(* Vec<T> is a sequence; index i of a Vec is element i + 1 of the sequence.*)
(***************************************************************************)
EXTENDS Integers, Sequences, FiniteSets, TLC

\* ------------------------------------------------------------------ bounds
\* Largest number of slots the unifier-level specification allocates.
MaxVars == 2
\* Largest number of top-level statements one run of infer_exprs is given.
MaxStmts == 3

\* ------------------------------------------------------------------- types
Unit == <<"Unit">>
Bool == <<"Bool">>
Num == <<"Num">>
Str == <<"Str">>
Var(i) == <<"Var", i>>
Func(args, ret) == <<"Func", args, ret>>
Tuple(tys) == <<"Tuple", tys>>
Array(ty) == <<"Array", ty>>

IsVar(t) == t[1] = "Var"
IsBase(t) == t[1] \in {"Unit", "Bool", "Num", "Str"}

\* Option<Type>::None
None == <<"None">>
Some(t) == <<"Some", t>>

\* Result<(), String>: the Ok value and the four messages unify() formats,
\* kept as the message kind and its two operands.
Ok == <<"Ok">>
ErrInfinite(i, t) == <<"Infinite type", i, t>>
ErrFuncArgs(n1, n2) == <<"Function argument mismatch", n1, n2>>
ErrTupleElems(n1, n2) == <<"Tuple element mismatch", n1, n2>>
ErrMismatch(t1, t2) == <<"Type mismatch", t1, t2>>
ErrUnbound(x) == <<"Unbound variable", x>>
IsOk(r) == r = Ok
Kind(r) == r[1]

\* ------------------------------------------------------ substitution table
\* Infer::fresh: push Var(len) and return it.
fresh(s) == [s |-> Append(s, Var(Len(s))), t |-> Var(Len(s))]

\* Infer::subst: self.subst.get(i).cloned()
substGet(s, i) == IF i < Len(s) THEN Some(s[i + 1]) ELSE None

\* True iff slot i exists and holds something other than Var(i).
Resolved(s, i) == substGet(s, i) # None /\ substGet(s, i)[2] # Var(i)

RECURSIVE occurs(_, _, _)
RECURSIVE occursAny(_, _, _, _)
\* args.into_iter().any(|t| self.occurs(i, t)), from element k on.
occursAny(s, i, ts, k) ==
    IF k > Len(ts) THEN FALSE
    ELSE IF occurs(s, i, ts[k]) THEN TRUE
    ELSE occursAny(s, i, ts, k + 1)

\* occurs without following resolved slots.
occursNoChase(s, i, t) ==
    CASE IsBase(t) -> FALSE
      [] t[1] = "Var" -> i = t[2]
      [] t[1] = "Func" -> occursAny(s, i, t[2], 1) \/ occurs(s, i, t[3])
      [] t[1] = "Tuple" -> occursAny(s, i, t[2], 1)
      [] t[1] = "Array" -> occurs(s, i, t[2])

\* Infer::occurs
occurs(s, i, t) ==
    CASE IsBase(t) -> FALSE
      [] t[1] = "Var" ->
            IF Resolved(s, t[2]) THEN occurs(s, i, s[t[2] + 1])
            ELSE i = t[2]
      [] t[1] = "Func" -> occursAny(s, i, t[2], 1) \/ occurs(s, i, t[3])
      [] t[1] = "Tuple" -> occursAny(s, i, t[2], 1)
      [] t[1] = "Array" -> occurs(s, i, t[2])

\* self.subst[i] = t
SetSlot(s, i, t) == [s EXCEPT ![i + 1] = t]

\* The Var arm binding without the occurs check.
BindVarUnchecked(s, i, t) == [s |-> SetSlot(s, i, t), r |-> Ok]

\* The Var arm of unify once the variable is known to be unresolved:
\* occurs check, then bind (lines 83-88 and 96-100).
BindVar(s, i, t) ==
    IF occurs(s, i, t) THEN [s |-> s, r |-> ErrInfinite(i, t)]
    ELSE [s |-> SetSlot(s, i, t), r |-> Ok]

RECURSIVE unify(_, _, _)
RECURSIVE unifyZip(_, _, _, _)
\* for (a1, a2) in a1.zip(a2) { self.unify(a1, a2)?; } from element k on;
\* the first Err returns with the bindings made so far left in the table.
unifyZip(s, as, bs, k) ==
    IF k > Len(as) \/ k > Len(bs) THEN [s |-> s, r |-> Ok]
    ELSE LET u == unify(s, as[k], bs[k])
         IN IF IsOk(u.r) THEN unifyZip(u.s, as, bs, k + 1) ELSE u

\* The Func arm without the unification of the return types.
unifyFuncNoRet(s, t1, t2) ==
    IF Len(t1[2]) # Len(t2[2])
    THEN [s |-> s, r |-> ErrFuncArgs(Len(t1[2]), Len(t2[2]))]
    ELSE unifyZip(s, t1[2], t2[2], 1)

\* The (Func(a1, r1), Func(a2, r2)) arm of unify: arity, arguments in order,
\* then the return types.
unifyFunc(s, t1, t2) ==
    IF Len(t1[2]) # Len(t2[2])
    THEN [s |-> s, r |-> ErrFuncArgs(Len(t1[2]), Len(t2[2]))]
    ELSE LET u == unifyZip(s, t1[2], t2[2], 1)
         IN IF IsOk(u.r) THEN unify(u.s, t1[3], t2[3]) ELSE u

\* Infer::unify, the arms in match order.
unify(s, t1, t2) ==
    CASE IsBase(t1) /\ t1 = t2 -> [s |-> s, r |-> Ok]
      [] IsVar(t1) /\ IsVar(t2) /\ t1[2] = t2[2] -> [s |-> s, r |-> Ok]
      [] IsVar(t1) /\ ~(IsVar(t2) /\ t1[2] = t2[2]) ->
            IF Resolved(s, t1[2]) THEN unify(s, s[t1[2] + 1], t2)
            ELSE BindVar(s, t1[2], t2)
      [] ~IsVar(t1) /\ IsVar(t2) ->
            IF Resolved(s, t2[2]) THEN unify(s, t1, s[t2[2] + 1])
            ELSE BindVar(s, t2[2], t1)
      [] t1[1] = "Func" /\ t2[1] = "Func" -> unifyFunc(s, t1, t2)
      [] t1[1] = "Tuple" /\ t2[1] = "Tuple" ->
            IF Len(t1[2]) # Len(t2[2])
            THEN [s |-> s, r |-> ErrTupleElems(Len(t1[2]), Len(t2[2]))]
            ELSE unifyZip(s, t1[2], t2[2], 1)
      [] t1[1] = "Array" /\ t2[1] = "Array" -> unify(s, t1[2], t2[2])
      [] OTHER -> [s |-> s, r |-> ErrMismatch(t1, t2)]

RECURSIVE solveFrom(_, _, _)
\* The loop of Infer::solve from constraint k on; `?` stops at the first Err.
solveFrom(s, cs, k) ==
    IF k > Len(cs) THEN [s |-> s, r |-> Ok]
    ELSE LET u == unify(s, cs[k][1], cs[k][2])
         IN IF IsOk(u.r) THEN solveFrom(u.s, cs, k + 1) ELSE u

\* Infer::solve over self.constraints.clone()
solve(s, cs) == solveFrom(s, cs, 1)

RECURSIVE substitute(_, _)
RECURSIVE substituteEach(_, _)
\* tys.into_iter().map(|t| self.substitute(t)).collect()
substituteEach(s, ts) ==
    IF ts = <<>> THEN <<>>
    ELSE <<substitute(s, Head(ts))>> \o substituteEach(s, Tail(ts))

\* substitute that looks a variable up once instead of chasing it.
substituteOnce(s, t) ==
    CASE t[1] = "Var" -> IF Resolved(s, t[2]) THEN s[t[2] + 1] ELSE t
      [] t[1] = "Func" ->
            Func(substituteEach(s, t[2]), substitute(s, t[3]))
      [] t[1] = "Tuple" -> Tuple(substituteEach(s, t[2]))
      [] t[1] = "Array" -> Array(substitute(s, t[2]))
      [] OTHER -> t

\* Infer::substitute
substitute(s, t) ==
    CASE t[1] = "Var" ->
            IF Resolved(s, t[2]) THEN substitute(s, s[t[2] + 1]) ELSE t
      [] t[1] = "Func" ->
            Func(substituteEach(s, t[2]), substitute(s, t[3]))
      [] t[1] = "Tuple" -> Tuple(substituteEach(s, t[2]))
      [] t[1] = "Array" -> Array(substitute(s, t[2]))
      [] OTHER -> t

RECURSIVE mergeFrom(_, _, _)
\* for x in theirs { if !mine.contains(&x) { mine.push(x); } } from element k
\* on: the merge loops of the Lambda arm of infer, for the table and for the
\* constraint list alike.
mergeFrom(mine, theirs, k) ==
    IF k > Len(theirs) THEN mine
    ELSE IF \E j \in 1..Len(mine) : mine[j] = theirs[k]
         THEN mergeFrom(mine, theirs, k + 1)
         ELSE mergeFrom(Append(mine, theirs[k]), theirs, k + 1)

merge(mine, theirs) == mergeFrom(mine, theirs, 1)

RECURSIVE freshTimes(_, _)
\* k calls of fresh() on table s.
freshTimes(s, k) == IF k = 0 THEN s ELSE freshTimes(fresh(s).s, k - 1)

\* ------------------------------------------------------------- expressions
\* Expr (untyped) as tagged tuples, spans left out (they are copied through):
\*   <<"Lit", l>>  l in {"Unit", "Bool", "Num", "Str"} (the payload is not read)
\*   <<"Ident", x>>            <<"Unary", op, e>>       <<"Binary", op, l, r>>
\*   <<"Lambda", args, ret, body>>  args: Seq(<<name, Option<Type>>>)
\*   <<"Call", f, args>>       <<"If", c, t, f>>
\*   <<"Let", name, ty, value, body>>   <<"Define", name, ty, value>>
\*   <<"Block", exprs, void>>
\* TExpr (typed) carries the same tags with the type fields appended:
\*   <<"Unary", op, e, ret_ty>>   <<"Binary", op, l, r, ret_ty>>
\*   <<"Lambda", params, body, ret_ty>>  params: Seq(<<name, Type>>)
\*   <<"If", c, t, f, br_ty>>     <<"Let", name, ty, value, body>>
\*   <<"Define", name, ty, value>>  <<"Block", exprs, void, ret_ty>>
Names == {"x", "y"}

ArithOps == {"Add", "Sub", "Mul", "Div", "Rem"}
BoolOps == {"And", "Or"}
CmpOps == {"Eq", "Ne", "Lt", "Le", "Gt", "Ge"}

\* The literal's type (the match on Lit in the Lit arm of infer).
LitType(l) ==
    CASE l = "Unit" -> Unit
      [] l = "Bool" -> Bool
      [] l = "Num" -> Num
      [] l = "Str" -> Str

\* Infer::new(): empty env, subst and constraints.
EmptyEnv == [x \in Names |-> None]
NewInfer(ids) == [env |-> EmptyEnv, subst |-> <<>>, constraints |-> <<>>, ids |-> ids]

\* self.fresh() on an Infer value; ids is the history of returned ids.
freshIn(st) ==
    [st |-> [st EXCEPT !.subst = fresh(st.subst).s,
                       !.ids = Append(@, Len(st.subst))],
     t |-> fresh(st.subst).t]

\* self.constraints.push(c)
push(st, c) == [st EXCEPT !.constraints = Append(@, c)]

\* opt.unwrap_or(d)
unwrap_or(opt, d) == IF opt = None THEN d ELSE opt[2]

\* Result<TExpr, String> together with the Infer value as the call left it.
OkT(st, te) == [ok |-> TRUE, st |-> st, te |-> te, err |-> Ok]
ErrT(st, err) == [ok |-> FALSE, st |-> st, te |-> <<"Lit", "Unit">>, err |-> err]

RECURSIVE lambdaParams(_, _, _, _)
\* args.map(|(x, t)| (x, t.unwrap_or(self.fresh()))): fresh() is an argument
\* of unwrap_or, so it runs for every parameter, declared or not.
lambdaParams(st, args, k, xs) ==
    IF k > Len(args) THEN [st |-> st, xs |-> xs]
    ELSE LET f == freshIn(st)
         IN lambdaParams(f.st, args, k + 1,
                         Append(xs, <<args[k][1], unwrap_or(args[k][2], f.t)>>))

RECURSIVE insertAll(_, _, _)
\* xs.for_each(|(x, t)| { env.insert(x, t); })
insertAll(e, xs, k) ==
    IF k > Len(xs) THEN e
    ELSE insertAll([e EXCEPT ![xs[k][1]] = Some(xs[k][2])], xs, k + 1)

RECURSIVE callFreshes(_, _, _)
\* args.map(|_| self.fresh())
callFreshes(st, n, ts) ==
    IF n = 0 THEN [st |-> st, ts |-> ts]
    ELSE LET f == freshIn(st) IN callFreshes(f.st, n - 1, Append(ts, f.t))

RECURSIVE Seconds(_)
\* xs.into_iter().map(|x| x.1).collect()
Seconds(xs) == IF xs = <<>> THEN <<>> ELSE <<Head(xs)[2]>> \o Seconds(Tail(xs))

RECURSIVE Repeat(_, _)
\* expected.clone() once per element
Repeat(t, n) == IF n = 0 THEN <<>> ELSE <<t>> \o Repeat(t, n - 1)

RECURSIVE infer(_, _, _)
RECURSIVE inferEach(_, _, _, _, _)
\* exprs.map(|x| self.infer(x, expecteds[k])).collect::<Result<Vec<_>, _>>():
\* in order, stopping at the first Err (the Call arguments and the Block).
inferEach(st, xs, expecteds, k, acc) ==
    IF k > Len(xs) THEN OkT(st, acc)
    ELSE LET r == infer(st, xs[k], expecteds[k])
         IN IF r.ok THEN inferEach(r.st, xs, expecteds, k + 1, Append(acc, r.te))
            ELSE r

\* Unary and Binary arms with both operands expected to be `operand`.
inferUnary(st, e, expected, operand) ==
    LET r == infer(st, e[3], operand)
    IN IF ~r.ok THEN r
       ELSE OkT(push(r.st, <<expected, operand>>), <<"Unary", e[2], r.te, operand>>)

inferBinary(st, e, expected, operand, result) ==
    LET l == infer(st, e[3], operand)
    IN IF ~l.ok THEN l
       ELSE LET r == infer(l.st, e[4], operand)
            IN IF ~r.ok THEN r
               ELSE OkT(push(r.st, <<expected, result>>),
                        <<"Binary", e[2], l.te, r.te, result>>)

\* The Lambda arm.
inferLambda(st, e, expected) ==
    LET f == freshIn(st)
        rt == unwrap_or(e[3], f.t)
        p == lambdaParams(f.st, e[2], 1, <<>>)
        self == p.st
        inf == [self EXCEPT !.env = insertAll(self.env, p.xs, 1)]
        b == infer(inf, e[4], rt)
    IN IF ~b.ok THEN ErrT([self EXCEPT !.ids = b.st.ids], b.err)
       ELSE OkT([self EXCEPT
                    !.subst = merge(self.subst, b.st.subst),
                    !.constraints = Append(merge(self.constraints, b.st.constraints),
                                           <<expected, Func(Seconds(p.xs), rt)>>),
                    !.ids = b.st.ids],
                <<"Lambda", p.xs, b.te, rt>>)

\* The Call arm.
inferCall(st, e, expected) ==
    LET fs == callFreshes(st, Len(e[3]), <<>>)
        ft == infer(fs.st, e[2], Func(fs.ts, expected))
    IN IF ~ft.ok THEN ft
       ELSE LET xs == inferEach(ft.st, e[3], fs.ts, 1, <<>>)
            IN IF ~xs.ok THEN xs
               ELSE OkT(xs.st, <<"Call", ft.te, xs.te>>)

\* The If arm.
inferIf(st, e, expected) ==
    LET ct == infer(st, e[2], Bool)
    IN IF ~ct.ok THEN ct
       ELSE LET tt == infer(ct.st, e[3], expected)
            IN IF ~tt.ok THEN tt
               ELSE LET et == infer(tt.st, e[4], expected)
                    IN IF ~et.ok THEN et
                       ELSE OkT(et.st, <<"If", ct.te, tt.te, et.te, expected>>)

\* The Let arm with a body scope that holds the new binding and nothing else.
inferLetOnlyBinding(st, e, expected) ==
    LET f == freshIn(st)
        ty == unwrap_or(e[3], f.t)
        vt == infer(f.st, e[4], ty)
    IN IF ~vt.ok THEN vt
       ELSE LET self == vt.st
                inf == [NewInfer(self.ids) EXCEPT
                           !.env = [EmptyEnv EXCEPT ![e[2]] = Some(ty)]]
                bt == infer(inf, e[5], expected)
            IN IF ~bt.ok THEN ErrT([self EXCEPT !.ids = bt.st.ids], bt.err)
               ELSE OkT([self EXCEPT !.ids = bt.st.ids],
                        <<"Let", e[2], ty, vt.te, bt.te>>)

\* The Let arm: the body is inferred by a new Infer that gets a copy of the
\* environment with the binding added; nothing of it is merged back.
inferLet(st, e, expected) ==
    LET f == freshIn(st)
        ty == unwrap_or(e[3], f.t)
        vt == infer(f.st, e[4], ty)
    IN IF ~vt.ok THEN vt
       ELSE LET self == vt.st
                inf == [NewInfer(self.ids) EXCEPT
                           !.env = [self.env EXCEPT ![e[2]] = Some(ty)]]
                bt == infer(inf, e[5], expected)
            IN IF ~bt.ok THEN ErrT([self EXCEPT !.ids = bt.st.ids], bt.err)
               ELSE OkT([self EXCEPT !.ids = bt.st.ids],
                        <<"Let", e[2], ty, vt.te, bt.te>>)

\* The Define arm.
inferDefine(st, e, expected) ==
    LET f == freshIn(st)
        ty == unwrap_or(e[3], f.t)
        vt == infer(f.st, e[4], ty)
    IN IF ~vt.ok THEN vt
       ELSE OkT(push([vt.st EXCEPT !.env[e[2]] = Some(ty)], <<expected, Unit>>),
                <<"Define", e[2], ty, vt.te>>)

\* The Block arm.
inferBlock(st, e, expected) ==
    LET xs == inferEach(st, e[2], Repeat(expected, Len(e[2])), 1, <<>>)
    IN IF ~xs.ok THEN xs
       ELSE OkT(xs.st, <<"Block", xs.te, e[3], IF e[3] THEN Unit ELSE expected>>)

\* Infer::infer
infer(st, e, expected) ==
    CASE e[1] = "Lit" -> OkT(push(st, <<expected, LitType(e[2])>>), e)
      [] e[1] = "Ident" ->
            IF st.env[e[2]] = None THEN ErrT(st, ErrUnbound(e[2]))
            ELSE OkT(push(st, <<expected, st.env[e[2]][2]>>), e)
      [] e[1] = "Unary" /\ e[2] = "Neg" -> inferUnary(st, e, expected, Num)
      [] e[1] = "Unary" /\ e[2] = "Not" -> inferUnary(st, e, expected, Bool)
      [] e[1] = "Binary" /\ e[2] \in ArithOps -> inferBinary(st, e, expected, Num, Num)
      [] e[1] = "Binary" /\ e[2] \in BoolOps -> inferBinary(st, e, expected, Bool, Bool)
      [] e[1] = "Binary" /\ e[2] \in CmpOps ->
            LET f == freshIn(st) IN inferBinary(f.st, e, expected, f.t, Bool)
      [] e[1] = "Lambda" -> inferLambda(st, e, expected)
      [] e[1] = "Call" -> inferCall(st, e, expected)
      [] e[1] = "If" -> inferIf(st, e, expected)
      [] e[1] = "Let" -> inferLet(st, e, expected)
      [] e[1] = "Define" -> inferDefine(st, e, expected)
      [] e[1] = "Block" -> inferBlock(st, e, expected)

RECURSIVE substitute_texp(_, _)
RECURSIVE substituteTexpEach(_, _)
RECURSIVE substituteParams(_, _)
\* exprs.map(|e| self.substitute_texp(e)).collect()
substituteTexpEach(s, xs) ==
    IF xs = <<>> THEN <<>>
    ELSE <<substitute_texp(s, Head(xs))>> \o substituteTexpEach(s, Tail(xs))

\* params.map(|(name, ty)| (name, self.substitute(ty))).collect()
substituteParams(s, ps) ==
    IF ps = <<>> THEN <<>>
    ELSE << <<Head(ps)[1], substitute(s, Head(ps)[2])>> >> \o substituteParams(s, Tail(ps))

\* Infer::substitute_texp: the ret_ty of Unary, the br_ty of If and the ret_ty
\* of Block are moved into the result as they are.
substitute_texp(s, te) ==
    CASE te[1] \in {"Lit", "Ident"} -> te
      [] te[1] = "Unary" -> <<"Unary", te[2], substitute_texp(s, te[3]), te[4]>>
      [] te[1] = "Binary" ->
            <<"Binary", te[2], substitute_texp(s, te[3]), substitute_texp(s, te[4]),
              substitute(s, te[5])>>
      [] te[1] = "Lambda" ->
            <<"Lambda", substituteParams(s, te[2]), substitute_texp(s, te[3]),
              substitute(s, te[4])>>
      [] te[1] = "Call" ->
            <<"Call", substitute_texp(s, te[2]), substituteTexpEach(s, te[3])>>
      [] te[1] = "If" ->
            <<"If", substitute_texp(s, te[2]), substitute_texp(s, te[3]),
              substitute_texp(s, te[4]), te[5]>>
      [] te[1] = "Let" ->
            <<"Let", te[2], substitute(s, te[3]), substitute_texp(s, te[4]),
              substitute_texp(s, te[5])>>
      [] te[1] = "Define" ->
            <<"Define", te[2], substitute(s, te[3]), substitute_texp(s, te[4])>>
      [] te[1] = "Block" ->
            <<"Block", substituteTexpEach(s, te[2]), te[3], te[4]>>

RECURSIVE substituteSolved(_, _)
\* tes.map(|te| match te { Some((t, s)) => Some((inf.substitute_texp(t), s)),
\*                          None => None })
substituteSolved(s, ts) ==
    IF ts = <<>> THEN <<>>
    ELSE <<IF Head(ts) = None THEN None ELSE Some(substitute_texp(s, Head(ts)[2]))>>
         \o substituteSolved(s, Tail(ts))

RECURSIVE union(_, _)
\* tes_union: the substituted statement, or the unsubstituted one where tes
\* holds None.
union(ts, raw) ==
    IF ts = <<>> \/ raw = <<>> THEN <<>>
    ELSE <<IF Head(ts) = None THEN Head(raw) ELSE Head(ts)[2]>>
         \o union(Tail(ts), Tail(raw))

\* --------------------------------------------------------------- variables
VARIABLES
    subst,        \* inf.subst, the run's substitution table
    env,          \* inf.env, name -> Option<Type>
    constraints,  \* inf.constraints
    es,           \* the statements of the input consumed so far
    tes,          \* tes: Some(typed statement) or None, per statement
    tes_nosub,    \* tes_nosub: the typed statements as generated
    errs,         \* errs
    pc,           \* "loop", "returned" or "panicked" (unwrap of an Err)
    ret,          \* what infer_exprs returned: <<tes_union, errs>>
    fresh_ids     \* history: the ids fresh() returned during the run, in order

vars == <<subst, env, constraints, es, tes, tes_nosub, errs, pc, ret, fresh_ids>>
driver == <<env, constraints, es, tes, tes_nosub, errs, pc, ret, fresh_ids>>

\* ------------------------------------------------------------- the driver
\* The statements a run is given are drawn from Stmts.
LitE(l) == <<"Lit", l>>
Id(x) == <<"Ident", x>>
Bin(op, l, r) == <<"Binary", op, l, r>>
Lam(x, b) == <<"Lambda", << <<x, None>> >>, None, b>>
LetE(x, v, b) == <<"Let", x, None, v, b>>
Def(x, v) == <<"Define", x, None, v>>

Stmts ==
    { LitE("Num"),                                      \* 42
      Bin("Lt", LitE("Num"), LitE("Num")),              \* 1 < 2
      Bin("Lt", LitE("Num"), LitE("Bool")),             \* 1 < true
      Id("x"),                                          \* x
      Def("x", LitE("Num")),                            \* define x = 1
      Bin("Add", Id("x"), LitE("Bool")),                \* x + true
      Lam("x", Bin("Add", Id("x"), LitE("Num"))),       \* (x) => x + 1
      Lam("x", Bin("Add", LitE("Num"), LitE("Bool"))),  \* (x) => 1 + true
      Lam("x", <<"Call", Id("x"), <<Id("x")>> >>),      \* (x) => x(x)
      <<"Call", Lam("x", Id("x")), <<LitE("Num")>> >>,  \* ((x) => x)(1)
      <<"If", LitE("Bool"), LitE("Num"), LitE("Num")>>, \* if true then 1 else 2
      <<"If", LitE("Num"), LitE("Num"), LitE("Num")>>,  \* if 1 then 1 else 2
      LetE("y", LitE("Num"), Bin("Add", LitE("Num"), LitE("Bool"))),
                                                        \* let y = 1 in 1 + true
      LetE("y", LitE("Num"), LetE("x", LitE("Num"), Id("x"))),
                                                        \* let y = 1 in let x = 2 in x
      LetE("y", LitE("Num"), Id("x")),                  \* let y = 1 in x
      Lam("x", LetE("y", LitE("Num"), Id("x"))),        \* (x) => let y = 1 in x
      <<"Unary", "Not", LitE("Bool")>>,                 \* !true
      <<"Unary", "Neg", LitE("Bool")>>,                 \* -true
      <<"Block", <<LitE("Num"), LitE("Num")>>, FALSE>>, \* { 1; 2 }
      <<"Lambda", << <<"x", Some(Num)>> >>, Some(Bool), Bin("Or", Id("x"), LitE("Bool"))>>
                                                        \* (x: Num): Bool => x || true
    }

\* infer_exprs up to the loop: Infer::new() and three empty vectors.
Init ==
    /\ subst = <<>>
    /\ env = EmptyEnv
    /\ constraints = <<>>
    /\ es = <<>>
    /\ tes = <<>>
    /\ tes_nosub = <<>>
    /\ errs = <<>>
    /\ pc = "loop"
    /\ ret = None
    /\ fresh_ids = <<>>

\* One iteration of the loop of infer_exprs on statement e: fresh, infer and
\* unwrap, the two pushes, solve, and the substitution of every statement so
\* far or the recording of the error.
Step(e) ==
    /\ pc = "loop"
    /\ Len(es) < MaxStmts
    /\ es' = Append(es, e)
    /\ LET f == freshIn([env |-> env, subst |-> subst,
                         constraints |-> constraints, ids |-> fresh_ids])
           g == infer(f.st, e, f.t)
           sv == solve(g.st.subst, g.st.constraints)
       IN /\ env' = g.st.env
          /\ constraints' = g.st.constraints
          /\ fresh_ids' = g.st.ids
          /\ IF ~g.ok
             THEN /\ pc' = "panicked"
                  /\ subst' = g.st.subst
                  /\ UNCHANGED <<tes, tes_nosub, errs, ret>>
             ELSE /\ pc' = "loop"
                  /\ subst' = sv.s
                  /\ tes_nosub' = Append(tes_nosub, g.te)
                  /\ IF IsOk(sv.r)
                     THEN /\ tes' = substituteSolved(sv.s, Append(tes, Some(g.te)))
                          /\ errs' = errs
                     ELSE /\ tes' = Append(tes, None)
                          /\ errs' = Append(errs, sv.r)
                  /\ ret' = ret

\* The end of the input: tes_union and the report (the messages in order;
\* join("\n") puts them on one line each).
Return ==
    /\ pc = "loop"
    /\ pc' = "returned"
    /\ ret' = <<union(tes, tes_nosub), errs>>
    /\ UNCHANGED <<subst, env, constraints, es, tes, tes_nosub, errs, fresh_ids>>

Next == (\E e \in Stmts : Step(e)) \/ Return

Spec == Init /\ [][Next]_vars

\* ------------------------------------------------- the unifier on its own
\* The types unify, solve and substitute are applied to, over n allocated
\* variables.
TVars(n) == {Var(i) : i \in 0..(n - 1)}
Atoms(n) == {Num, Bool} \cup TVars(n)
Compounds(n) ==
    {Array(a) : a \in TVars(n)}
    \cup {Func(<<a>>, b) : a \in TVars(n), b \in {Num, Bool}}
    \cup {Tuple(<<a>>) : a \in TVars(n)}
    \cup {Func(<<>>, Num), Tuple(<<>>), Tuple(<<Num, Bool>>)}
Types(n) == Atoms(n) \cup Compounds(n)

\* A table as Infer::new() leaves it; the driver is not run.
InitU ==
    /\ subst = <<>>
    /\ env = EmptyEnv
    /\ constraints = <<>>
    /\ es = <<>>
    /\ tes = <<>>
    /\ tes_nosub = <<>>
    /\ errs = <<>>
    /\ pc = "loop"
    /\ ret = None
    /\ fresh_ids = <<>>

\* A call of fresh().
Fresh ==
    /\ Len(subst) < MaxVars
    /\ subst' = fresh(subst).s
    /\ UNCHANGED driver

\* A call of unify(t1, t2); the table keeps what the call wrote, Ok or Err.
Unify ==
    /\ \E t1, t2 \in Types(Len(subst)) : subst' = unify(subst, t1, t2).s
    /\ UNCHANGED driver

\* A call of solve() with two queued constraints (expected, actual) on one
\* expected variable.
Solve ==
    /\ \E v \in TVars(Len(subst)), t1 \in Types(Len(subst)), t2 \in Atoms(Len(subst)) :
          subst' = solve(subst, << <<v, t1>>, <<v, t2>> >>).s
    /\ UNCHANGED driver

\* The table merge of the Lambda arm: the clone has made k calls of fresh().
LambdaMerge ==
    /\ \E k \in 1..MaxVars :
          /\ Len(subst) + k <= MaxVars
          /\ subst' = merge(subst, freshTimes(subst, k))
    /\ UNCHANGED driver

NextU == Fresh \/ Unify \/ Solve \/ LambdaMerge

SpecU == InitU /\ [][NextU]_vars

\* ------------------------------------------------------------------ claims
RECURSIVE VarsOf(_)
RECURSIVE VarsOfEach(_)
\* The ids of the variables a type contains.
VarsOfEach(ts) == IF ts = <<>> THEN {} ELSE VarsOf(Head(ts)) \cup VarsOfEach(Tail(ts))
VarsOf(t) ==
    CASE t[1] = "Var" -> {t[2]}
      [] t[1] = "Func" -> VarsOfEach(t[2]) \cup VarsOf(t[3])
      [] t[1] = "Tuple" -> VarsOfEach(t[2])
      [] t[1] = "Array" -> VarsOf(t[2])
      [] OTHER -> {}

RECURSIVE Annots(_)
RECURSIVE AnnotsEach(_)
\* The type annotations the nodes of a typed tree carry.
AnnotsEach(xs) == IF xs = <<>> THEN {} ELSE Annots(Head(xs)) \cup AnnotsEach(Tail(xs))
Annots(te) ==
    CASE te[1] \in {"Lit", "Ident"} -> {}
      [] te[1] = "Unary" -> {te[4]} \cup Annots(te[3])
      [] te[1] = "Binary" -> {te[5]} \cup Annots(te[3]) \cup Annots(te[4])
      [] te[1] = "Lambda" ->
            {te[2][k][2] : k \in DOMAIN te[2]} \cup {te[4]} \cup Annots(te[3])
      [] te[1] = "Call" -> Annots(te[2]) \cup AnnotsEach(te[3])
      [] te[1] = "If" -> {te[5]} \cup Annots(te[2]) \cup Annots(te[3]) \cup Annots(te[4])
      [] te[1] = "Let" -> {te[3]} \cup Annots(te[4]) \cup Annots(te[5])
      [] te[1] = "Define" -> {te[3]} \cup Annots(te[4])
      [] te[1] = "Block" -> {te[4]} \cup AnnotsEach(te[2])

RECURSIVE Children(_)
\* The direct sub-expressions of an untyped expression.
Children(e) ==
    CASE e[1] \in {"Lit", "Ident"} -> {}
      [] e[1] = "Unary" -> {e[3]}
      [] e[1] = "Binary" -> {e[3], e[4]}
      [] e[1] = "Lambda" -> {e[4]}
      [] e[1] = "Call" -> {e[2]} \cup {e[3][k] : k \in DOMAIN e[3]}
      [] e[1] = "If" -> {e[2], e[3], e[4]}
      [] e[1] = "Let" -> {e[4], e[5]}
      [] e[1] = "Define" -> {e[4]}
      [] e[1] = "Block" -> {e[2][k] : k \in DOMAIN e[2]}

RECURSIVE SubExprs(_)
\* An expression and everything below it.
SubExprs(e) == {e} \cup UNION {SubExprs(c) : c \in Children(e)}

\* The names an expression mentions: identifiers, parameters, bound names.
Idents(e) ==
    UNION { CASE x[1] = "Ident" -> {x[2]}
              [] x[1] = "Lambda" -> {x[2][k][1] : k \in DOMAIN x[2]}
              [] x[1] \in {"Let", "Define"} -> {x[2]}
              [] OTHER -> {} : x \in SubExprs(e) }

IsLitNot(e, l) == e[1] = "Lit" /\ e[2] # l

\* The node itself forces two different base types equal: an operand of an
\* arithmetic or boolean operator that is a literal of another type, a
\* comparison of literals of two types, a literal condition that is no Bool.
Clash(e) ==
    CASE e[1] = "Unary" /\ e[2] = "Neg" -> IsLitNot(e[3], "Num")
      [] e[1] = "Unary" /\ e[2] = "Not" -> IsLitNot(e[3], "Bool")
      [] e[1] = "Binary" /\ e[2] \in ArithOps ->
            IsLitNot(e[3], "Num") \/ IsLitNot(e[4], "Num")
      [] e[1] = "Binary" /\ e[2] \in BoolOps ->
            IsLitNot(e[3], "Bool") \/ IsLitNot(e[4], "Bool")
      [] e[1] = "Binary" /\ e[2] \in CmpOps ->
            e[3][1] = "Lit" /\ e[4][1] = "Lit" /\ e[3][2] # e[4][2]
      [] e[1] = "If" -> IsLitNot(e[2], "Bool")
      [] OTHER -> FALSE

IllTyped(e) == \E x \in SubExprs(e) : Clash(x)

\* infer_exprs on the single statement e reports no error.
WellTypedAlone(e) ==
    LET f == freshIn(NewInfer(<<>>))
        g == infer(f.st, e, f.t)
    IN g.ok /\ IsOk(solve(g.st.subst, g.st.constraints).r)

\* Statement k was generated and its solve failed / succeeded.
Failed(k) == k \in DOMAIN tes /\ tes[k] = None
Solved(k) == k \in DOMAIN tes /\ tes[k] # None

\* C1: a solver failure on statement n does not affect a later statement m
\* that is well-typed on its own and shares no identifier with n: the solve
\* run for m succeeds and m is kept substituted, with no error recorded.
C1_LaterStatementUnaffected ==
    \A n, m \in DOMAIN tes :
        (n < m /\ Failed(n) /\ WellTypedAlone(es[m])
              /\ Idents(es[n]) \cap Idents(es[m]) = {})
        => Solved(m)

\* C2: a constraint-generation failure (an unbound identifier) never aborts
\* the run.
C2_GenerationFailureDoesNotAbort == pc # "panicked"

\* C3: a statement with a subexpression that forces two different base
\* types equal, wherever it sits, has an error recorded.
C3_IllTypedRejected ==
    \A k \in DOMAIN tes : IllTyped(es[k]) => Failed(k)

\* C8: in what infer_exprs returns, the tree of a statement whose solve
\* succeeded carries only annotations that are their own image under
\* substitute in the final table.
C8_SolvedTreesResolved ==
    pc = "returned" =>
        \A k \in DOMAIN tes :
            Solved(k) => \A a \in Annots(ret[1][k]) : substitute(subst, a) = a

NoDuplicates(xs) == \A i, j \in DOMAIN xs : i # j => xs[i] # xs[j]

\* C9: within one run no two fresh() calls return the same id, and every
\* variable of a queued constraint or of an annotation of a produced tree
\* is a slot of the run's table.
C9_FreshUniqueAndBacked ==
    /\ NoDuplicates(fresh_ids)
    /\ \A k \in DOMAIN constraints :
          VarsOf(constraints[k][1]) \cup VarsOf(constraints[k][2]) \subseteq 0..(Len(subst) - 1)
    /\ \A k \in DOMAIN tes_nosub :
          \A a \in Annots(tes_nosub[k]) : VarsOf(a) \subseteq 0..(Len(subst) - 1)

\* The types over the variables of the current table, the pairs of them the
\* table makes equal, and the tables a successful unify leads to.
Here == Types(Len(subst))
EqualNow == {p \in Here \X Here : p[1] # p[2] /\ substitute(subst, p[1]) = substitute(subst, p[2])}
Unified == {<<p[1], p[2], unify(subst, p[1], p[2])>> : p \in Here \X Here}

\* C4: unify is sound. When unify(t1, t2) returns Ok the two types have the
\* same image under substitute in the resulting table, and every pair of
\* types that was equal under substitute before a successful unify (so every
\* pair an earlier unify made equal) is still equal after it.
C4_UnifySound ==
    LET ok == {x \in Unified : IsOk(x[3].r)}
        tables == {x[3].s : x \in ok}
        equal == EqualNow
    IN /\ \A x \in ok : substitute(x[3].s, x[1]) = substitute(x[3].s, x[2])
       /\ \A s2 \in tables :
             \A p \in equal : substitute(s2, p[1]) = substitute(s2, p[2])

\* C4's case: a slot has been bound, two types are equal through it, and a
\* unify of two different function types succeeds and binds another slot.
C4_Witness ==
    /\ EqualNow # {}
    /\ \E t1, t2 \in Compounds(Len(subst)) :
          /\ t1[1] = "Func" /\ t1 # t2
          /\ IsOk(unify(subst, t1, t2).r)
          /\ unify(subst, t1, t2).s # subst

\* C5: for a compound type t whose chased structure contains Var(i), both
\* unify(Var(i), t) and unify(t, Var(i)) fail with 'Infinite type'.
C5_OccursIsInfiniteType ==
    \A i \in 0..(Len(subst) - 1) :
        \A t \in Compounds(Len(subst)) :
            i \in VarsOf(substitute(subst, t)) =>
                /\ Kind(unify(subst, Var(i), t).r) = "Infinite type"
                /\ Kind(unify(subst, t, Var(i)).r) = "Infinite type"

\* C5's case: Var(i) occurs in t only through a resolved slot.
C5_Witness ==
    \E i \in 0..(Len(subst) - 1) :
        \E t \in Compounds(Len(subst)) :
            /\ i \in VarsOf(substitute(subst, t))
            /\ i \notin VarsOf(t)
            /\ Kind(unify(subst, Var(i), t).r) = "Infinite type"

\* Two tables give the types the same image up to a renaming of the
\* unresolved variables: they make the same pairs of types equal.
SameUpToRenaming(s1, s2) ==
    \A a, b \in Here :
        (substitute(s1, a) = substitute(s1, b)) <=> (substitute(s2, a) = substitute(s2, b))

\* C6: unify(t1, t2) and unify(t2, t1) from the same table both return Ok
\* with equivalent tables, or both fail with the same kind of error.
C6_OrderIndependent ==
    \A t1, t2 \in Here :
        LET u == unify(subst, t1, t2)
            v == unify(subst, t2, t1)
        IN IF IsOk(u.r) THEN IsOk(v.r) /\ SameUpToRenaming(u.s, v.s)
           ELSE Kind(u.r) = Kind(v.r)

\* C7: substitute is idempotent on every type over allocated variables, and
\* its result contains no variable whose slot is resolved.
C7_SubstituteIdempotent ==
    \A t \in Here :
        LET r == substitute(subst, t)
        IN /\ substitute(subst, r) = r
           /\ \A i \in VarsOf(r) : ~Resolved(subst, i)

\* C7's case: a type whose image needs two lookups, one slot resolving to a
\* type that contains another resolved variable.
C7_Witness ==
    \E i, j \in 0..(Len(subst) - 1) :
        /\ Resolved(subst, i) /\ Resolved(subst, j)
        /\ j \in VarsOf(subst[i + 1])
        /\ substitute(subst, Var(i)) # subst[i + 1]

\* The slots reachable from slot i by following slot contents.
Edges(i) == IF Resolved(subst, i) THEN VarsOf(subst[i + 1]) ELSE {}
RECURSIVE ReachWithin(_, _)
ReachWithin(S, k) ==
    IF k = 0 THEN S ELSE ReachWithin(S \cup UNION {Edges(j) : j \in S}, k - 1)
Reach(i) == ReachWithin(Edges(i), Len(subst))

\* C10: the resolution graph is acyclic: no resolved slot reaches its own
\* variable by following slot contents.
C10_Acyclic ==
    \A i \in 0..(Len(subst) - 1) : Resolved(subst, i) => i \notin Reach(i)

\* C10's case: a resolved slot leads to an unresolved variable, and the
\* occurs check refuses to bind that variable to a type that leads back.
C10_Witness ==
    \E i, j \in 0..(Len(subst) - 1) :
        /\ i # j /\ Resolved(subst, i) /\ ~Resolved(subst, j)
        /\ j \in Reach(i)
        /\ Kind(unify(subst, Var(j), Array(Var(i))).r) = "Infinite type"

RECURSIVE LetLookups(_, _)
\* The identifiers that are the body of a let in e, each as <<x, name, S>>:
\* the identifier, the name the let binds and the names in scope around the
\* let, S being the names in scope around e.
LetLookups(e, S) ==
    CASE e[1] = "Let" ->
            (IF e[5][1] = "Ident" THEN {<<e[5][2], e[2], S>>} ELSE {})
            \cup LetLookups(e[4], S) \cup LetLookups(e[5], S \cup {e[2]})
      [] e[1] = "Lambda" -> LetLookups(e[4], S \cup {e[2][k][1] : k \in DOMAIN e[2]})
      [] OTHER -> UNION {LetLookups(c, S) : c \in Children(e)}

RECURSIVE Strays(_)
\* e has an identifier that is not the body of a let.
Strays(e) ==
    CASE e[1] = "Ident" -> TRUE
      [] e[1] = "Let" -> Strays(e[4]) \/ (e[5][1] # "Ident" /\ Strays(e[5]))
      [] OTHER -> \E c \in Children(e) : Strays(c)

\* Every identifier of e is the body of a let, and e defines nothing.
OnlyLetBodies(e) == ~Strays(e) /\ \A x \in SubExprs(e) : x[1] # "Define"

\* The names env binds.
Scope(en) == {x \in Names : en[x] # None}

\* This step is a loop iteration of infer_exprs; the statement it consumes.
IsStep == pc = "loop" /\ Len(es') = Len(es) + 1
Consumed == es'[Len(es')]

\* C11 as claimed: an identifier in a let body that names another binding of
\* the enclosing scope (an earlier define, a parameter of an enclosing
\* lambda) is not found, and generation fails.
C11_LetBodySeesOnlyItsBinding ==
    [][IsStep =>
         \A l \in LetLookups(Consumed, Scope(env)) :
             (l[1] # l[2] /\ l[1] \in l[3]) => pc' = "panicked"]_vars

\* C11 as amended: the let body sees the enclosing scope and the let-bound
\* name. In a statement whose identifiers are all let bodies and that defines
\* nothing, generation fails exactly when one of them names neither the
\* let-bound name nor a binding of the enclosing scope.
C11_LetBodySeesEnclosingScope ==
    [][(IsStep /\ OnlyLetBodies(Consumed)) =>
         (pc' = "panicked" <=>
             \E l \in LetLookups(Consumed, Scope(env)) : l[1] \notin l[3] \cup {l[2]})]_vars

\* C11's case: a let whose body is an identifier other than its own name,
\* bound by an earlier define or by a parameter of an enclosing lambda, has
\* been generated without failure.
C11_Witness ==
    /\ \E k \in DOMAIN tes_nosub :
          es[k][1] = "Let" /\ es[k][5][1] = "Ident" /\ es[k][5][2] # es[k][2]
    /\ \E k \in DOMAIN tes_nosub :
          es[k][1] = "Lambda" /\ es[k][4][1] = "Let" /\ es[k][4][5] = Id(es[k][2][1][1])

\* C12: unify never rejects two types that are already equal under
\* substitute: it returns Ok and leaves every slot of the table unchanged.
C12_EqualTypesUnify ==
    \A t1, t2 \in Here :
        substitute(subst, t1) = substitute(subst, t2) =>
            LET u == unify(subst, t1, t2) IN IsOk(u.r) /\ u.s = subst

====
